---- MODULE Spec2Model ----
(***************************************************************************)
(* Load/parse/validate/render engine of the IFC viewer                     *)
(* (frontend/src/components/Viewer3D.jsx, first component pair:            *)
(* IFCModel with the WASM fallback cascade and the 15 s watchdog, and the  *)
(* Viewer3D shell that owns loadingStatus / errorMessage).                 *)
(*                                                                         *)
(* A "session" is one run of IFCModel's useEffect for one url.  The refs   *)
(* of IFCModel (modelRef, watchdog, fallbackIndex, ifcLoader) belong to    *)
(* the mounted component instance: they survive a change of url and are    *)
(* fresh after the url was null (Viewer3D unmounts IFCModel then).  The    *)
(* callbacks handed to ifcLoader.load and to setTimeout are closures that  *)
(* nothing cancels except clearTimeout; they run in any order, one at a    *)
(* time (single event loop), so every callback is one atomic action.       *)
(***************************************************************************)
EXTENDS Integers, FiniteSets, Sequences, TLC

\* ---------------------------------------------------------------- bounds
MaxSessions == 2
\* bytes of the transferred file (progress events carry 1..MaxBytes loaded)
MaxBytes == 3
\* nodes of a parsed model's object tree
MaxNodes == 4
\* drawing uploads started by the App
MaxUploads == 3
\* chat messages sent from the ChatWidget
MaxChats == 3

\* ------------------------------------------------------------- constants
Urls == {"A", "B"}
NoUrl == "null"
Null == 0
\* null in a ref that holds a model object
NoNode == <<>>

\* fallbackList.current (JS indices 0..2)
fallbackList ==
  <<"https://unpkg.com/web-ifc@0.0.47/",
    "https://unpkg.com/web-ifc@0.0.53/",
    "https://unpkg.com/web-ifc@0.0.36/">>

Undefined == "undefined"

\* a lookup that yields the first entry whatever the index
ListAt_First(idx) == fallbackList[1]

\* fallbackList.current[idx] with JS semantics: out of range is undefined
ListAt(idx) ==
  IF idx >= 0 /\ idx < Len(fallbackList) THEN fallbackList[idx + 1] ELSE Undefined

\* index of a wasm directory in fallbackList (the loader stores the path)
CandIndex(path) == CHOOSE i \in 0..(Len(fallbackList) - 1) : fallbackList[i + 1] = path

Sessions == 1..MaxSessions

\* the four places that start a load in one effect run:
\*   load0 = ifcLoader.load (line 78), load1 = first retry (line 145),
\*   load2 = retry chain (line 188), wd = loadAsync in the watchdog (line 52)
Paths == {"load0", "load1", "load2", "wd"}

\* what a load delivers: a model with a mesh, a model with no mesh,
\* or an error (a LinkError, or anything else)
Outcomes == {"mesh", "empty", "LinkError", "Other"}

\* error.message of the two error kinds ("" exercises `|| 'Unknown error'`)
Message(e) == IF e = "LinkError" THEN "import object field is not a Function" ELSE ""

\* every error taken for a LinkError (the test dropped)
IsLinkErrorText_Any(e) == TRUE

\* String(error).includes('LinkError')
IsLinkErrorText(e) == e = "LinkError"

\* `${error.message || 'Unknown error'}`
MsgOr(e) == IF Message(e) = "" THEN "Unknown error" ELSE Message(e)

\* the reason strings passed to onError, as <<template, interpolated text>>
ReasonFetchParse(e) == <<"Failed to fetch or parse IFC file: ", MsgOr(e)>>
ReasonNoGeometry == <<"Model loaded but contains no geometry.">>
ReasonNoGeometryRetry == <<"Model loaded but contains no geometry (retry).">>
ReasonNoGeometryChain == <<"Model loaded but contains no geometry (retry chain).">>
ReasonRetryFailed(e) == <<"Retry failed: ", MsgOr(e)>>
ReasonChainFailed(e) == <<"Retry chain failed: ", MsgOr(e)>>
ReasonTimeoutNoGeometry == <<"Timeout fallback: no geometry">>
ReasonTimeoutFailed(e) == <<"Timeout fallback failed: ", MsgOr(e)>>

\* a model object returned by a load: which session and which load made it
Node(s, p) == <<s, p>>
Nodes == Sessions \X Paths

VARIABLES
  ifcUrl,         \* Viewer3D prop: NoUrl or a url
  nSess,          \* number of effect runs so far
  cur,            \* the session of the mounted effect, Null if unmounted
  sessUrl,        \* url closed over by each session
  sessInst,       \* the component instance (named by its first session)
  modelRef,       \* modelRef.current of each instance: a node or NoNode
  watchdog,       \* watchdog.current of each instance: a timer handle or Null
  fallbackIndex,  \* fallbackIndex.current of each instance
  wasmPath,       \* path set on ifcLoader.current.ifcManager of each instance
  currentWasm,    \* React state currentWasm of each instance
  timers,         \* handles of the timeouts that are armed and not yet fired
  lstate,         \* per session and path: "idle", "pending" or an outcome
  lcand,          \* per session and path: candidate index the load started with
  scene,          \* the nodes attached to the three.js scene
  camera,         \* the node the camera was last framed on (NoNode: initial)
  loadingStatus,  \* Viewer3D state
  errorMessage,   \* Viewer3D state
  attempts, errors, retries,  \* Viewer3D counters
  notified,       \* history: terminal notifications each session emitted
  wdRuns,         \* history: how often each session's watchdog callback ran
  overlapped,     \* history: sessions replaced by a new url while still active
  nLoads,         \* history: loads (load / loadAsync calls) each session started
  progressPct,    \* Viewer3D state: the value last handed to onProgress
  xhrLoaded,      \* per session: progress.loaded of its last progress event
  xhrTotal,       \* per session: progress.total of its transfer
  lastReported,   \* history: <<attempt, value>> of the last onProgress call
  sawFull,        \* history: sessions that have reported progress 100
  boxMin, boxMax, \* corners of the model's bounding box (THREE.Box3)
  framer,         \* which component's auto-focus has run ("none": not yet)
  distance,       \* the stand-off it computed, in 1/1000 units
  cameraPosition, \* camera.position it set, in 1/1000 units
  lookAt,         \* the point handed to camera.lookAt, in 1/1000 units
  \* the hang-detection variant of IFCModel / Viewer3D (part_002); the
  \* single-loader variant (part_001) has the same state without `timeout`
  urlH,           \* Viewer3D prop ifcUrl
  nSessH, curH,   \* effect runs so far, the mounted one (Null: unmounted)
  sessInstH,      \* component instance of each effect run
  loadH,          \* per run: "idle", "pending" or how loadAsync settled
  timeoutH,       \* runs whose `timeout` is armed and has not fired
  phaseH,         \* Viewer3D state phase
  statusH,        \* Viewer3D state loadingStatus
  errorMessageH,  \* Viewer3D state errorMessage
  progressH,      \* Viewer3D state progressPct
  modelRefH,      \* modelRef.current of each instance
  sceneH,         \* nodes attached to the scene
  cameraH,        \* node the camera was last framed on
  xhrLoadedH,     \* per run: xhr.loaded of its last progress event
  xhrTotalH,      \* per run: xhr.total (0: not lengthComputable)
  notifiedH,      \* history: onLoadComplete / onError calls of each run
  \* geometry validation of a parsed model
  tree,           \* the object tree: size n, parent and isMesh of each node
  traversed,      \* node whose traverse() has run (0: none yet)
  hasGeometry,    \* the flag the traversal callback sets
  \* the App's drawing upload (part_003)
  appVersion,     \* which of the two versions of App is running (1 or 2)
  file,           \* App state: the selected drawing, NoFile if none
  loading,        \* App state: the loading flag
  appIfcUrl,      \* App state: ifcUrl handed to the viewer
  stats,          \* App state: data of the last successful response
  nUploads,       \* number of POST /process requests started so far
  uploadState,    \* per request: "idle", "pending", or how it settled
  uploadMode,     \* per request: generation_mode of its form data
  \* the ChatWidget (part_000)
  isOpen,         \* ChatWidget state: the chat window is shown
  inputText,      \* ChatWidget state: content of the text input
  isLoading,      \* ChatWidget state: the isLoading flag
  messages,       \* ChatWidget state: the list of messages
  nChats,         \* number of POST /chat requests started so far
  chatState,      \* per request: "idle", "pending", "replied" or "failed"
  constructionParams  \* App state updated through onParamsUpdate

\* the progress part of the state
pvars == <<progressPct, xhrLoaded, xhrTotal, lastReported, sawFull>>

\* the camera framing part of the state
fvars == <<boxMin, boxMax, framer, distance, cameraPosition, lookAt>>

\* the state of the hang-detection variant
hvars == <<urlH, nSessH, curH, sessInstH, loadH, timeoutH, phaseH, statusH,
           errorMessageH, progressH, modelRefH, sceneH, cameraH, xhrLoadedH,
           xhrTotalH, notifiedH>>

\* the geometry validation part of the state
gvars == <<tree, traversed, hasGeometry>>

\* the upload part of the App's state
uvars == <<appVersion, file, loading, appIfcUrl, stats, nUploads, uploadState,
           uploadMode>>

\* the state of the ChatWidget, with the parameters it updates
cvars == <<isOpen, inputText, isLoading, messages, nChats, chatState,
           constructionParams>>

\* the state of the App around the viewer
avars == <<uvars, cvars>>

\* state outside the cascade / watchdog engine
aux == <<pvars, fvars, hvars, gvars, avars>>

vars == <<ifcUrl, nSess, cur, sessUrl, sessInst, modelRef, watchdog,
          fallbackIndex, wasmPath, currentWasm, timers, lstate, lcand, scene,
          camera, loadingStatus, errorMessage, attempts, errors, retries,
          notified, wdRuns, overlapped, nLoads, aux>>

\* JavaScript numbers as far as the progress arithmetic produces them
Num(n) == <<"num", n>>
NaN == <<"NaN", 0>>
Infinity == <<"Infinity", 0>>

\* Box3 corners the framing is exercised on
Origin == <<0, 0, 0>>
Corners == {Origin, <<-10, 0, 10>>}
Extents == {0, 5, 10}
\* the Canvas camera before any framing (position [10, 10, 10], no lookAt)
FrameIdle ==
  /\ framer = "none"
  /\ distance = 0
  /\ cameraPosition = <<10000, 10000, 10000>>
  /\ lookAt = <<0, 0, 0>>

\* part_002 before any url: useState / useRef initial values
HangIdle ==
  /\ urlH = NoUrl
  /\ nSessH = 0
  /\ curH = Null
  /\ sessInstH = [s \in Sessions |-> Null]
  /\ loadH = [s \in Sessions |-> "idle"]
  /\ timeoutH = {}
  /\ phaseH = "IDLE"
  /\ statusH = "idle"
  /\ errorMessageH = ""
  /\ progressH = 0
  /\ modelRefH = [i \in Sessions |-> NoNode]
  /\ sceneH = {}
  /\ cameraH = NoNode
  /\ xhrLoadedH = [s \in Sessions |-> 0]
  /\ xhrTotalH = [s \in Sessions |-> 0]
  /\ notifiedH = [s \in Sessions |-> <<>>]

\* object trees: node 1 is the root, the parent of a node has a lower number
Trees ==
  UNION {[n : {k},
          parent : {f \in [1..k -> 0..(k - 1)] :
                      f[1] = 0 /\ \A c \in 2..k : f[c] \in 1..(c - 1)},
          isMesh : [1..k -> BOOLEAN]] : k \in 1..MaxNodes}
\* no traversal has run
GeomIdle ==
  /\ traversed = 0
  /\ hasGeometry = FALSE

\* files the user can pick; NoFile is e.target.files[0] of an empty selection
Files == {"plan1.png", "plan2.png"}
NoFile == "nofile"
NoStats == <<>>
Uploads == 1..MaxUploads
Chats == 1..MaxChats
Backend == "http://localhost:8000"
\* useState initial values of App; the second version starts with a test url
UploadIdle ==
  /\ file = NoFile
  /\ loading = FALSE
  /\ appIfcUrl = IF appVersion = 1 THEN NoUrl
                 ELSE <<Backend, "/download/test_output.ifc">>
  /\ stats = NoStats
  /\ nUploads = 0
  /\ uploadState = [r \in Uploads |-> "idle"]
  /\ uploadMode = [r \in Uploads |-> "none"]

\* the message the ChatWidget starts with
Greeting == <<"agent", <<"greeting">>>>
\* useState initial values of ChatWidget and of App's constructionParams
\* (scale in hundredths)
ChatIdle ==
  /\ isOpen = FALSE
  /\ inputText = <<>>
  /\ isLoading = FALSE
  /\ messages = <<Greeting>>
  /\ nChats = 0
  /\ chatState = [r \in Chats |-> "idle"]
  /\ constructionParams = [floor_count |-> 1, scale |-> 5, height |-> 3]

\* the App before any upload and any chat, in its first version
AppIdle ==
  /\ appVersion = 1
  /\ UploadIdle
  /\ ChatIdle

EngineInit ==
  /\ ifcUrl = NoUrl
  /\ nSess = 0
  /\ cur = Null
  /\ sessUrl = [s \in Sessions |-> NoUrl]
  /\ sessInst = [s \in Sessions |-> Null]
  /\ modelRef = [i \in Sessions |-> NoNode]
  /\ watchdog = [i \in Sessions |-> Null]
  /\ fallbackIndex = [i \in Sessions |-> 0]
  /\ wasmPath = [i \in Sessions |-> Undefined]
  /\ currentWasm = [i \in Sessions |-> fallbackList[1]]
  /\ timers = {}
  /\ lstate = [s \in Sessions |-> [p \in Paths |-> "idle"]]
  /\ lcand = [s \in Sessions |-> [p \in Paths |-> -1]]
  /\ scene = {}
  /\ camera = NoNode
  /\ loadingStatus = "idle"
  /\ errorMessage = <<>>
  /\ attempts = 0
  /\ errors = 0
  /\ retries = 0
  /\ notified = [s \in Sessions |-> <<>>]
  /\ wdRuns = [s \in Sessions |-> 0]
  /\ overlapped = {}
  /\ nLoads = [s \in Sessions |-> 0]
  /\ progressPct = Num(0)
  /\ xhrLoaded = [s \in Sessions |-> 0]
  /\ xhrTotal = [s \in Sessions |-> 0]
  /\ lastReported = <<0, Num(0)>>
  /\ sawFull = {}

Init ==
  /\ EngineInit
  /\ boxMin = Origin /\ boxMax = <<10, 10, 10>>
  /\ FrameIdle
  /\ HangIdle
  /\ tree = [n |-> 1, parent |-> <<0>>, isMesh |-> <<TRUE>>]
  /\ GeomIdle
  /\ AppIdle

\* --------------------------------------------------------------- helpers
\* scene.remove(modelRef.current) guarded by `if (modelRef.current)`
SceneRemove(sc, ref) == IF ref # NoNode THEN sc \ {ref} ELSE sc

\* the clearTimeout call forgotten
ClearTimeout_Noop(ts, handle) == ts

\* clearTimeout(watchdog.current) guarded by `if (watchdog.current)`;
\* clearing a handle that fired or was cleared leaves the timers alone
ClearTimeout(ts, handle) == IF handle # Null THEN ts \ {handle} ELSE ts

InstOf(s) == sessInst[s]

\* a session still has a callback to come: its timer or one of its loads
Active(s) == s \in timers \/ \E p \in Paths : lstate[s][p] = "pending"

\* scene.add(model): three.js keeps each object once
SceneAdd(sc, n) == sc \cup {n}

\* Viewer3D.onError: setLoadingStatus('error'); setErrorMessage(msg); errors+1
OnError(s, msg) ==
  /\ loadingStatus' = "error"
  /\ errorMessage' = msg
  /\ errors' = errors + 1
  /\ notified' = [notified EXCEPT ![s] = Append(@, msg)]

\* Viewer3D.onLoadComplete: setLoadingStatus('success')
OnLoadComplete(s) ==
  /\ loadingStatus' = "success"
  /\ notified' = [notified EXCEPT ![s] = Append(@, <<"success">>)]
  /\ UNCHANGED <<errorMessage, errors>>

\* the timers left after a normal success callback ran
\* (`if (watchdog.current) { clearTimeout(watchdog.current); ... }`)
DisarmAfterSuccess(ts, handle) == ClearTimeout(ts, handle)

\* the timers left after a normal error / empty-geometry callback ran:
\* those branches call onError and return, they never touch the watchdog
DisarmAfterFailure(ts, handle) == ts

\* setInterval in place of setTimeout: the handle stays armed after it fired
TimersAfterFire_Interval(ts, s) == ts

\* the timers left after the watchdog callback of session s ran (setTimeout
\* is one-shot: the handle is spent)
TimersAfterFire(ts, s) == ts \ {s}

\* ------------------------------------------------------------ operations
\* Viewer3D gets a new non-empty ifcUrl.  If IFCModel is mounted, React runs
\* the previous effect's cleanup and then the effect body, in one commit;
\* otherwise it mounts a fresh IFCModel (fresh refs) and runs the effect.
IssueUrl(u) ==
  /\ u # ifcUrl
  /\ nSess < MaxSessions
  /\ LET s == nSess + 1
         mounted == ifcUrl # NoUrl
         i == IF mounted THEN InstOf(cur) ELSE s
         \* cleanup of the previous run
         scene1 == IF mounted THEN SceneRemove(scene, modelRef[i]) ELSE scene
         timers1 == IF mounted THEN ClearTimeout(timers, watchdog[i]) ELSE timers
         wd1 == IF mounted THEN Null ELSE watchdog[i]
         \* `if (!ifcLoader.current)`: new IFCLoader, setWasmPath(currentWasm)
         path1 == IF wasmPath[i] = Undefined THEN currentWasm[i] ELSE wasmPath[i]
     IN /\ ifcUrl' = u
        /\ nSess' = s
        /\ cur' = s
        /\ sessUrl' = [sessUrl EXCEPT ![s] = u]
        /\ sessInst' = [sessInst EXCEPT ![s] = i]
        /\ wasmPath' = [wasmPath EXCEPT ![i] = path1]
        \* onLoadStart()
        /\ loadingStatus' = "loading"
        /\ errorMessage' = <<>>
        /\ attempts' = attempts + 1
        \* cleanup previous model
        /\ scene' = SceneRemove(scene1, modelRef[i])
        /\ modelRef' = [modelRef EXCEPT ![i] = NoNode]
        \* clear and arm the watchdog
        /\ timers' = ClearTimeout(timers1, wd1) \cup {s}
        /\ watchdog' = [watchdog EXCEPT ![i] = s]
        \* ifcLoader.current.load(url, ...)
        /\ lstate' = [lstate EXCEPT ![s]["load0"] = "pending"]
        /\ lcand' = [lcand EXCEPT ![s]["load0"] = CandIndex(path1)]
        /\ UNCHANGED <<fallbackIndex, currentWasm, camera, errors, retries,
                       notified, wdRuns>>
        /\ overlapped' = IF mounted /\ Active(cur)
                           THEN overlapped \cup {cur} ELSE overlapped
        /\ nLoads' = [nLoads EXCEPT ![s] = @ + 1]
        /\ UNCHANGED aux

\* ifcUrl becomes null: Viewer3D unmounts IFCModel, the effect cleanup runs
ClearUrl ==
  /\ ifcUrl # NoUrl
  /\ LET i == InstOf(cur)
     IN /\ ifcUrl' = NoUrl
        /\ cur' = Null
        /\ scene' = SceneRemove(scene, modelRef[i])
        /\ timers' = ClearTimeout(timers, watchdog[i])
        /\ watchdog' = [watchdog EXCEPT ![i] = Null]
        /\ UNCHANGED <<nSess, sessUrl, sessInst, modelRef, fallbackIndex,
                       wasmPath, currentWasm, lstate, lcand, camera,
                       loadingStatus, errorMessage, attempts, errors, retries,
                       notified, wdRuns, overlapped, nLoads, aux>>

\* the 15 s timeout of session s elapses: the callback starts loadAsync(url)
\* on the shared loader, with whatever wasm path is configured now
WatchdogFire(s) ==
  /\ s \in timers
  /\ timers' = TimersAfterFire(timers, s)
  /\ wdRuns' = [wdRuns EXCEPT ![s] = @ + 1]
  /\ lstate' = [lstate EXCEPT ![s]["wd"] = "pending"]
  /\ lcand' = [lcand EXCEPT ![s]["wd"] = CandIndex(wasmPath[InstOf(s)])]
  /\ UNCHANGED <<ifcUrl, nSess, cur, sessUrl, sessInst, modelRef, watchdog,
                 fallbackIndex, wasmPath, currentWasm, scene, camera,
                 loadingStatus, errorMessage, attempts, errors, retries,
                 notified, overlapped, aux>>
  /\ nLoads' = [nLoads EXCEPT ![s] = @ + 1]

CascadePaths == {"load0", "load1", "load2"}

\* success callback of load0 / load1 / load2 with a model that has a mesh
LoadSuccess(s, p) ==
  /\ p \in CascadePaths
  /\ lstate[s][p] = "pending"
  /\ LET i == InstOf(s)
     IN /\ lstate' = [lstate EXCEPT ![s][p] = "mesh"]
        /\ modelRef' = [modelRef EXCEPT ![i] = Node(s, p)]
        /\ scene' = SceneAdd(scene, Node(s, p))
        /\ camera' = Node(s, p)
        /\ OnLoadComplete(s)
        /\ timers' = DisarmAfterSuccess(timers, watchdog[i])
        /\ watchdog' = [watchdog EXCEPT ![i] = Null]
        /\ UNCHANGED <<ifcUrl, nSess, cur, sessUrl, sessInst, fallbackIndex,
                       wasmPath, currentWasm, lcand, attempts, retries, wdRuns,
                       overlapped, nLoads, aux>>

NoGeometryReason(p) ==
  CASE p = "load0" -> ReasonNoGeometry
    [] p = "load1" -> ReasonNoGeometryRetry
    [] p = "load2" -> ReasonNoGeometryChain
    [] OTHER -> ReasonTimeoutNoGeometry

\* the same callback without the hasGeometry test: the model is attached
LoadEmpty_Attach(s, p) ==
  /\ p \in CascadePaths
  /\ lstate[s][p] = "pending"
  /\ LET i == InstOf(s)
     IN /\ lstate' = [lstate EXCEPT ![s][p] = "empty"]
        /\ modelRef' = [modelRef EXCEPT ![i] = Node(s, p)]
        /\ scene' = SceneAdd(scene, Node(s, p))
        /\ camera' = Node(s, p)
        /\ OnLoadComplete(s)
        /\ timers' = DisarmAfterSuccess(timers, watchdog[i])
        /\ watchdog' = [watchdog EXCEPT ![i] = Null]
        /\ UNCHANGED <<ifcUrl, nSess, cur, sessUrl, sessInst, fallbackIndex,
                       wasmPath, currentWasm, lcand, attempts, retries, wdRuns,
                       overlapped, nLoads, aux>>

\* success callback of load0 / load1 / load2 with a model that has no mesh
LoadEmpty(s, p) ==
  /\ p \in CascadePaths
  /\ lstate[s][p] = "pending"
  /\ lstate' = [lstate EXCEPT ![s][p] = "empty"]
  /\ OnError(s, NoGeometryReason(p))
  /\ timers' = DisarmAfterFailure(timers, watchdog[InstOf(s)])
  /\ UNCHANGED <<ifcUrl, nSess, cur, sessUrl, sessInst, modelRef, watchdog,
                 fallbackIndex, wasmPath, currentWasm, lcand, scene, camera,
                 attempts, retries, wdRuns, overlapped, nLoads, aux>>

\* the next cascade step: fallbackIndex, currentWasm and the loader's path
\* move to nextIdx and the same url is loaded again on path q
StartFallback(s, p, q, e, nextIdx) ==
  LET i == InstOf(s)
  IN /\ lstate' = [lstate EXCEPT ![s][p] = e, ![s][q] = "pending"]
     /\ lcand' = [lcand EXCEPT ![s][q] = nextIdx]
     /\ fallbackIndex' = [fallbackIndex EXCEPT ![i] = nextIdx]
     /\ currentWasm' = [currentWasm EXCEPT ![i] = ListAt(nextIdx)]
     /\ wasmPath' = [wasmPath EXCEPT ![i] = ListAt(nextIdx)]
     /\ nLoads' = [nLoads EXCEPT ![s] = @ + 1]

\* error callback of load0 (lines 123-230)
Load0Error(s, e) ==
  /\ lstate[s]["load0"] = "pending"
  /\ LET i == InstOf(s)
         nextIdx == fallbackIndex[i] + 1
     IN IF IsLinkErrorText(e) /\ ListAt(nextIdx) # Undefined
        THEN /\ StartFallback(s, "load0", "load1", e, nextIdx)
             /\ retries' = retries + 1
             /\ UNCHANGED <<loadingStatus, errorMessage, errors, notified>>
        ELSE /\ lstate' = [lstate EXCEPT ![s]["load0"] = e]
             /\ OnError(s, ReasonFetchParse(e))
             /\ UNCHANGED <<lcand, fallbackIndex, currentWasm, wasmPath, retries,
                            nLoads>>
  /\ timers' = DisarmAfterFailure(timers, watchdog[InstOf(s)])
  /\ UNCHANGED <<ifcUrl, nSess, cur, sessUrl, sessInst, modelRef, watchdog,
                 scene, camera, attempts, wdRuns, overlapped, aux>>

\* error callback of the first retry (lines 175-225)
Load1Error(s, e) ==
  /\ lstate[s]["load1"] = "pending"
  /\ LET i == InstOf(s)
         nextIdx2 == fallbackIndex[i] + 1
     IN IF IsLinkErrorText(e) /\ ListAt(nextIdx2) # Undefined
        THEN /\ StartFallback(s, "load1", "load2", e, nextIdx2)
             /\ UNCHANGED <<loadingStatus, errorMessage, errors, notified>>
        ELSE /\ lstate' = [lstate EXCEPT ![s]["load1"] = e]
             /\ OnError(s, ReasonRetryFailed(e))
             /\ UNCHANGED <<lcand, fallbackIndex, currentWasm, wasmPath, nLoads>>
  /\ timers' = DisarmAfterFailure(timers, watchdog[InstOf(s)])
  /\ UNCHANGED <<ifcUrl, nSess, cur, sessUrl, sessInst, modelRef, watchdog,
                 scene, camera, attempts, retries, wdRuns, overlapped, aux>>

\* error callback of the retry chain (lines 216-219): every error is final
Load2Error(s, e) ==
  /\ lstate[s]["load2"] = "pending"
  /\ lstate' = [lstate EXCEPT ![s]["load2"] = e]
  /\ OnError(s, ReasonChainFailed(e))
  /\ timers' = DisarmAfterFailure(timers, watchdog[InstOf(s)])
  /\ UNCHANGED <<ifcUrl, nSess, cur, sessUrl, sessInst, modelRef, watchdog,
                 fallbackIndex, wasmPath, currentWasm, lcand, scene, camera,
                 attempts, retries, wdRuns, overlapped, nLoads, aux>>

\* the watchdog's loadAsync resolves with a model that has a mesh
WdSuccess(s) ==
  /\ lstate[s]["wd"] = "pending"
  /\ lstate' = [lstate EXCEPT ![s]["wd"] = "mesh"]
  /\ modelRef' = [modelRef EXCEPT ![InstOf(s)] = Node(s, "wd")]
  /\ scene' = SceneAdd(scene, Node(s, "wd"))
  /\ camera' = Node(s, "wd")
  /\ OnLoadComplete(s)
  /\ UNCHANGED <<ifcUrl, nSess, cur, sessUrl, sessInst, watchdog, timers,
                 fallbackIndex, wasmPath, currentWasm, lcand, attempts,
                 retries, wdRuns, overlapped, nLoads, aux>>

\* the watchdog's loadAsync resolves with a model that has no mesh
WdEmpty(s) ==
  /\ lstate[s]["wd"] = "pending"
  /\ lstate' = [lstate EXCEPT ![s]["wd"] = "empty"]
  /\ OnError(s, NoGeometryReason("wd"))
  /\ UNCHANGED <<ifcUrl, nSess, cur, sessUrl, sessInst, modelRef, watchdog,
                 timers, fallbackIndex, wasmPath, currentWasm, lcand, scene,
                 camera, attempts, retries, wdRuns, overlapped, nLoads, aux>>

\* the watchdog's loadAsync rejects: the catch block reports it
WdError(s, e) ==
  /\ lstate[s]["wd"] = "pending"
  /\ lstate' = [lstate EXCEPT ![s]["wd"] = e]
  /\ OnError(s, ReasonTimeoutFailed(e))
  /\ UNCHANGED <<ifcUrl, nSess, cur, sessUrl, sessInst, modelRef, watchdog,
                 timers, fallbackIndex, wasmPath, currentWasm, lcand, scene,
                 camera, attempts, retries, wdRuns, overlapped, nLoads, aux>>

ErrorKinds == {"LinkError", "Other"}

Next ==
  \/ \E u \in Urls : IssueUrl(u)
  \/ ClearUrl
  \/ \E s \in Sessions : WatchdogFire(s)
  \/ \E s \in Sessions, p \in CascadePaths : LoadSuccess(s, p)
  \/ \E s \in Sessions, p \in CascadePaths : LoadEmpty(s, p)
  \/ \E s \in Sessions, e \in ErrorKinds : Load0Error(s, e)
  \/ \E s \in Sessions, e \in ErrorKinds : Load1Error(s, e)
  \/ \E s \in Sessions, e \in ErrorKinds : Load2Error(s, e)
  \/ \E s \in Sessions : WdSuccess(s)
  \/ \E s \in Sessions : WdEmpty(s)
  \/ \E s \in Sessions, e \in ErrorKinds : WdError(s, e)

Spec == Init /\ [][Next]_vars

\* every callback the event loop still owes: timers and load completions
Callback ==
  \/ \E s \in Sessions : WatchdogFire(s)
  \/ \E s \in Sessions, p \in CascadePaths : LoadSuccess(s, p)
  \/ \E s \in Sessions, p \in CascadePaths : LoadEmpty(s, p)
  \/ \E s \in Sessions, e \in ErrorKinds : Load0Error(s, e)
  \/ \E s \in Sessions, e \in ErrorKinds : Load1Error(s, e)
  \/ \E s \in Sessions, e \in ErrorKinds : Load2Error(s, e)
  \/ \E s \in Sessions : WdSuccess(s)
  \/ \E s \in Sessions : WdEmpty(s)
  \/ \E s \in Sessions, e \in ErrorKinds : WdError(s, e)

\* every armed timer fires and every started load completes
FairSpec == Init /\ [][Next]_vars /\ WF_vars(Callback)

\* --------------------------------------------------------------- progress
\* the division by progress.total left out
Percent_Unscaled(loaded, total) == Num(loaded * 100)

\* Math.round((progress.loaded / progress.total) * 100): x / 0 is Infinity,
\* 0 / 0 is NaN, Math.round(x) is floor(x + 1/2)
Percent(loaded, total) ==
  IF total = 0
    THEN IF loaded = 0 THEN NaN ELSE Infinity
    ELSE Num((200 * loaded + total) \div (2 * total))

\* the cascade loads started so far; each one is an entry into fetching
AttemptNo ==
  Cardinality({n \in Sessions \X CascadePaths : lstate[n[1]][n[2]] # "idle"})

\* progress callback of the load the effect body started (lines 118-122):
\* no lengthComputable test, the value goes to setProgressPct as it is.
\* The transfer reports more bytes with every event; its total is fixed by
\* the first event (0: the response carries no length).
XhrProgress(s, loaded, total) ==
  /\ lstate[s]["load0"] = "pending"
  /\ loaded > xhrLoaded[s]
  /\ xhrLoaded[s] > 0 => total = xhrTotal[s]
  /\ xhrLoaded' = [xhrLoaded EXCEPT ![s] = loaded]
  /\ xhrTotal' = [xhrTotal EXCEPT ![s] = total]
  /\ progressPct' = Percent(loaded, total)
  /\ lastReported' = <<AttemptNo, Percent(loaded, total)>>
  /\ sawFull' = IF Percent(loaded, total) = Num(100)
                  THEN sawFull \cup {s} ELSE sawFull
  /\ UNCHANGED <<ifcUrl, nSess, cur, sessUrl, sessInst, modelRef, watchdog,
                 fallbackIndex, wasmPath, currentWasm, timers, lstate, lcand,
                 scene, camera, loadingStatus, errorMessage, attempts, errors,
                 retries, notified, wdRuns, overlapped, nLoads, fvars, hvars,
                 gvars, avars>>

\* the engine with its progress events; the watchdog is left aside here (its
\* loadAsync has no progress callback, nor have the retries)
ProgNext ==
  \/ \E u \in Urls : IssueUrl(u)
  \/ ClearUrl
  \/ \E s \in Sessions, l \in 1..MaxBytes, t \in {0, MaxBytes} : XhrProgress(s, l, t)
  \/ \E s \in Sessions, p \in CascadePaths : LoadSuccess(s, p)
  \/ \E s \in Sessions, p \in CascadePaths : LoadEmpty(s, p)
  \/ \E s \in Sessions, e \in ErrorKinds : Load0Error(s, e)
  \/ \E s \in Sessions, e \in ErrorKinds : Load1Error(s, e)
  \/ \E s \in Sessions, e \in ErrorKinds : Load2Error(s, e)

ProgSpec == Init /\ [][ProgNext]_vars

\* --------------------------------------------------------- camera framing
Max(a, b) == IF a >= b THEN a ELSE b
Abs(x) == IF x < 0 THEN -x ELSE x
\* Math.max(size.x, size.y, size.z) with size = box.getSize()
MaxDim ==
  Max(boxMax[1] - boxMin[1], Max(boxMax[2] - boxMin[2], boxMax[3] - boxMin[3]))
\* box.getCenter(), in 1/1000 units
Center == [k \in 1..3 |-> (boxMin[k] + boxMax[k]) * 500]
\* camera.position.set(center.x + d, center.y + d, center.z + d)
Offset(c, d) == [k \in 1..3 |-> c[k] + d]
\* the Canvas of Viewer3D creates the camera with fov: 50
CameraFov == 50
\* Math.tan(fov * 2) for fov in radians, in 1/1000: tan(100 deg) = -5.671...
TanMilli(deg) == CASE deg = 100 -> -5671
\* Viewer3D.jsx: cameraZ = Math.abs(maxDim / 4 * Math.tan(fov * 2)); cameraZ *= 3
CameraZ == (Abs(MaxDim * TanMilli(CameraFov * 2)) * 3) \div 4
\* part_001: distance = maxDim * 3 || 60
Distance1 == IF MaxDim * 3 = 0 THEN 60000 ELSE MaxDim * 3000
\* part_002: maxDim = Math.max(...) || 10; dist = maxDim * 3
Distance2 == (IF MaxDim = 0 THEN 10 ELSE MaxDim) * 3000

Frame(who, d) ==
  /\ framer = "none"
  /\ framer' = who
  /\ distance' = d
  /\ cameraPosition' = Offset(Center, d)
  /\ lookAt' = Center
  /\ UNCHANGED <<boxMin, boxMax>>
  /\ UNCHANGED <<ifcUrl, nSess, cur, sessUrl, sessInst, modelRef, watchdog,
                 fallbackIndex, wasmPath, currentWasm, timers, lstate, lcand,
                 scene, camera, loadingStatus, errorMessage, attempts, errors,
                 retries, notified, wdRuns, overlapped, nLoads, pvars, hvars,
                 gvars, avars>>

\* auto-focus of the success callback in Viewer3D.jsx (lines 98-110)
FrameViewer3D == Frame("Viewer3D", CameraZ)
\* auto-focus of part_001 (lines 51-59)
FramePart001 == Frame("part_001", Distance1)
\* auto-focus of part_002 (lines 57-69)
FramePart002 == Frame("part_002", Distance2)

\* the framing applied to a box drawn from Corners and Extents
FrameInit ==
  /\ EngineInit
  /\ boxMin \in Corners
  /\ \E x \in Extents, y \in Extents, z \in Extents :
       boxMax = <<boxMin[1] + x, boxMin[2] + y, boxMin[3] + z>>
  /\ FrameIdle
  /\ HangIdle
  /\ tree = [n |-> 1, parent |-> <<0>>, isMesh |-> <<TRUE>>]
  /\ GeomIdle
  /\ AppIdle

FrameNext == FrameViewer3D \/ FramePart001 \/ FramePart002

FrameSpec == FrameInit /\ [][FrameNext]_vars

\* ------------------------------------------- hang-detection variant (part_002)
engine == <<ifcUrl, nSess, cur, sessUrl, sessInst, modelRef, watchdog,
            fallbackIndex, wasmPath, currentWasm, timers, lstate, lcand,
            scene, camera, loadingStatus, errorMessage, attempts, errors,
            retries, notified, wdRuns, overlapped, nLoads>>

\* how loadAsync can settle: resolved with a model, resolved with a falsy
\* value (the `if (model)` test), rejected
ResolvedH == {"model", "nomodel"}
NodeH(s) == <<s, "model">>

\* err.message || 'Engine Crash', replaced when it names a LinkError
MsgH(e) ==
  IF Message(e) = "" THEN "Engine Crash"
  ELSE IF e = "LinkError"
    THEN "WASM BINARY MISMATCH (LinkError). Please HARD REFRESH (Ctrl+F5)."
    ELSE Message(e)

\* a clearTimeout that arms a timer it does not find armed
ClearTimeoutH_Toggle(ts, s) == IF s \in ts THEN ts \ {s} ELSE ts \cup {s}

\* clearTimeout(timeout) on the `timeout` of run s, armed or not
ClearTimeoutH(ts, s) == ts \ {s}

\* a new url: cleanup of the previous run (if mounted), then the effect body
\* up to the first await
IssueUrlH(u) ==
  /\ u # urlH
  /\ nSessH < MaxSessions
  /\ LET s == nSessH + 1
         mounted == urlH # NoUrl
         i == IF mounted THEN sessInstH[curH] ELSE s
         scene1 == IF mounted THEN SceneRemove(sceneH, modelRefH[i]) ELSE sceneH
         timeout1 == IF mounted THEN ClearTimeoutH(timeoutH, curH) ELSE timeoutH
     IN /\ urlH' = u
        /\ nSessH' = s
        /\ curH' = s
        /\ sessInstH' = [sessInstH EXCEPT ![s] = i]
        \* onLoadStart()
        /\ statusH' = "loading"
        /\ progressH' = 0
        \* setPhase('INIT') ... setPhase('FETCHING')
        /\ phaseH' = "FETCHING"
        /\ sceneH' = SceneRemove(scene1, modelRefH[i])
        /\ modelRefH' = [modelRefH EXCEPT ![i] = NoNode]
        /\ timeoutH' = timeout1 \cup {s}
        /\ loadH' = [loadH EXCEPT ![s] = "pending"]
        /\ UNCHANGED <<errorMessageH, cameraH, xhrLoadedH, xhrTotalH, notifiedH>>
  /\ UNCHANGED <<engine, pvars, fvars, gvars, avars>>

\* the url becomes null: IFCModel unmounts, the cleanup runs
ClearUrlH ==
  /\ urlH # NoUrl
  /\ urlH' = NoUrl
  /\ curH' = Null
  /\ timeoutH' = ClearTimeoutH(timeoutH, curH)
  /\ sceneH' = SceneRemove(sceneH, modelRefH[sessInstH[curH]])
  /\ UNCHANGED <<nSessH, sessInstH, loadH, phaseH, statusH, errorMessageH,
                 progressH, modelRefH, cameraH, xhrLoadedH, xhrTotalH, notifiedH>>
  /\ UNCHANGED <<engine, pvars, fvars, gvars, avars>>

\* the 15 s timeout of run s elapses (lines 32-35)
HangFire(s) ==
  /\ s \in timeoutH
  /\ timeoutH' = timeoutH \ {s}
  /\ phaseH' = "HANG_DETECTED"
  /\ UNCHANGED <<urlH, nSessH, curH, sessInstH, loadH, statusH, errorMessageH,
                 progressH, modelRefH, sceneH, cameraH, xhrLoadedH, xhrTotalH,
                 notifiedH>>
  /\ UNCHANGED <<engine, pvars, fvars, gvars, avars>>

\* progress callback of loadAsync (lines 40-46)
XhrProgressH(s, loaded, total) ==
  /\ loadH[s] = "pending"
  /\ loaded > xhrLoadedH[s]
  /\ xhrLoadedH[s] > 0 => total = xhrTotalH[s]
  /\ xhrLoadedH' = [xhrLoadedH EXCEPT ![s] = loaded]
  /\ xhrTotalH' = [xhrTotalH EXCEPT ![s] = total]
  /\ IF total > 0
       THEN LET pct == (loaded * 100) \div total
            IN /\ progressH' = pct
               /\ phaseH' = IF pct = 100 THEN "PARSING_GEOMETRY" ELSE phaseH
       ELSE UNCHANGED <<progressH, phaseH>>
  /\ UNCHANGED <<urlH, nSessH, curH, sessInstH, loadH, timeoutH, statusH,
                 errorMessageH, modelRefH, sceneH, cameraH, notifiedH>>
  /\ UNCHANGED <<engine, pvars, fvars, gvars, avars>>

\* loadAsync resolves (lines 48-74)
LoadResolveH(s, m) ==
  /\ loadH[s] = "pending"
  /\ loadH' = [loadH EXCEPT ![s] = m]
  /\ timeoutH' = ClearTimeoutH(timeoutH, s)
  /\ IF m = "model"
       THEN /\ modelRefH' = [modelRefH EXCEPT ![sessInstH[s]] = NodeH(s)]
            /\ sceneH' = SceneAdd(sceneH, NodeH(s))
            /\ cameraH' = NodeH(s)
            /\ progressH' = 100
            /\ phaseH' = "READY"
            /\ statusH' = "success"
            /\ notifiedH' = [notifiedH EXCEPT ![s] = Append(@, <<"success">>)]
       ELSE UNCHANGED <<modelRefH, sceneH, cameraH, progressH, phaseH, statusH,
                        notifiedH>>
  /\ UNCHANGED <<urlH, nSessH, curH, sessInstH, errorMessageH, xhrLoadedH,
                 xhrTotalH>>
  /\ UNCHANGED <<engine, pvars, fvars, gvars, avars>>

\* loadAsync rejects: the catch block (lines 75-85)
LoadRejectH(s, e) ==
  /\ loadH[s] = "pending"
  /\ loadH' = [loadH EXCEPT ![s] = e]
  /\ timeoutH' = ClearTimeoutH(timeoutH, s)
  /\ phaseH' = "CRASHED"
  /\ statusH' = "error"
  /\ errorMessageH' = MsgH(e)
  /\ notifiedH' = [notifiedH EXCEPT ![s] = Append(@, <<MsgH(e)>>)]
  /\ UNCHANGED <<urlH, nSessH, curH, sessInstH, progressH, modelRefH, sceneH,
                 cameraH, xhrLoadedH, xhrTotalH>>
  /\ UNCHANGED <<engine, pvars, fvars, gvars, avars>>

HangNext ==
  \/ \E u \in Urls : IssueUrlH(u)
  \/ ClearUrlH
  \/ \E s \in Sessions : HangFire(s)
  \/ \E s \in Sessions, l \in 1..MaxBytes, t \in {0, MaxBytes} : XhrProgressH(s, l, t)
  \/ \E s \in Sessions, m \in ResolvedH : LoadResolveH(s, m)
  \/ \E s \in Sessions, e \in ErrorKinds : LoadRejectH(s, e)

HangSpec == Init /\ [][HangNext]_vars

\* -------------------------------------------- single-loader variant (part_001)
\* what the success callback can be handed: a model with or without a mesh
LoadedP1 == {"mesh", "empty"}

\* err.message || 'Engine Crash'
MsgP1(e) == IF Message(e) = "" THEN "Engine Crash" ELSE Message(e)

\* a new url: cleanup of the previous run (if mounted), then the effect body
IssueUrlP1(u) ==
  /\ u # urlH
  /\ nSessH < MaxSessions
  /\ LET s == nSessH + 1
         mounted == urlH # NoUrl
         i == IF mounted THEN sessInstH[curH] ELSE s
         scene1 == IF mounted THEN SceneRemove(sceneH, modelRefH[i]) ELSE sceneH
     IN /\ urlH' = u
        /\ nSessH' = s
        /\ curH' = s
        /\ sessInstH' = [sessInstH EXCEPT ![s] = i]
        \* onLoadStart()
        /\ statusH' = "loading"
        /\ progressH' = 0
        /\ phaseH' = "INIT_STABLE_ENGINE"
        /\ sceneH' = SceneRemove(scene1, modelRefH[i])
        /\ modelRefH' = [modelRefH EXCEPT ![i] = NoNode]
        /\ loadH' = [loadH EXCEPT ![s] = "pending"]
        /\ UNCHANGED <<timeoutH, errorMessageH, cameraH, xhrLoadedH, xhrTotalH,
                       notifiedH>>
  /\ UNCHANGED <<engine, pvars, fvars, gvars, avars>>

\* the url becomes null: IFCModel unmounts, the cleanup runs (lines 78-80)
ClearUrlP1 ==
  /\ urlH # NoUrl
  /\ urlH' = NoUrl
  /\ curH' = Null
  /\ sceneH' = SceneRemove(sceneH, modelRefH[sessInstH[curH]])
  /\ UNCHANGED <<nSessH, sessInstH, loadH, timeoutH, phaseH, statusH,
                 errorMessageH, progressH, modelRefH, cameraH, xhrLoadedH,
                 xhrTotalH, notifiedH>>
  /\ UNCHANGED <<engine, pvars, fvars, gvars, avars>>

\* progress callback (lines 63-70)
XhrProgressP1(s, loaded, total) ==
  /\ loadH[s] = "pending"
  /\ loaded > xhrLoadedH[s]
  /\ xhrLoadedH[s] > 0 => total = xhrTotalH[s]
  /\ xhrLoadedH' = [xhrLoadedH EXCEPT ![s] = loaded]
  /\ xhrTotalH' = [xhrTotalH EXCEPT ![s] = total]
  /\ IF total > 0
       THEN LET percent == (loaded * 100) \div total
            IN /\ progressH' = percent
               /\ phaseH' = IF percent = 100 THEN "BUILDING_MESH" ELSE "LOADING"
       ELSE UNCHANGED <<progressH, phaseH>>
  /\ UNCHANGED <<urlH, nSessH, curH, sessInstH, loadH, timeoutH, statusH,
                 errorMessageH, modelRefH, sceneH, cameraH, notifiedH>>
  /\ UNCHANGED <<engine, pvars, fvars, gvars, avars>>

\* success callback (lines 35-62): no test of the model's geometry
LoadSuccessP1(s, m) ==
  /\ loadH[s] = "pending"
  /\ loadH' = [loadH EXCEPT ![s] = m]
  /\ phaseH' = "SUCCESS"
  /\ modelRefH' = [modelRefH EXCEPT ![sessInstH[s]] = NodeH(s)]
  /\ sceneH' = SceneAdd(sceneH, NodeH(s))
  /\ cameraH' = NodeH(s)
  \* onProgress(100) ... onLoadComplete()
  /\ progressH' = 100
  /\ statusH' = "success"
  /\ notifiedH' = [notifiedH EXCEPT ![s] = Append(@, <<"success">>)]
  /\ UNCHANGED <<urlH, nSessH, curH, sessInstH, timeoutH, errorMessageH,
                 xhrLoadedH, xhrTotalH>>
  /\ UNCHANGED <<engine, pvars, fvars, gvars, avars>>

\* error callback (lines 71-75)
LoadErrorP1(s, e) ==
  /\ loadH[s] = "pending"
  /\ loadH' = [loadH EXCEPT ![s] = e]
  /\ phaseH' = "ERROR"
  /\ statusH' = "error"
  /\ errorMessageH' = MsgP1(e)
  /\ notifiedH' = [notifiedH EXCEPT ![s] = Append(@, <<MsgP1(e)>>)]
  /\ UNCHANGED <<urlH, nSessH, curH, sessInstH, timeoutH, progressH, modelRefH,
                 sceneH, cameraH, xhrLoadedH, xhrTotalH>>
  /\ UNCHANGED <<engine, pvars, fvars, gvars, avars>>

P1Next ==
  \/ \E u \in Urls : IssueUrlP1(u)
  \/ ClearUrlP1
  \/ \E s \in Sessions, l \in 1..MaxBytes, t \in {0, MaxBytes} : XhrProgressP1(s, l, t)
  \/ \E s \in Sessions, m \in LoadedP1 : LoadSuccessP1(s, m)
  \/ \E s \in Sessions, e \in ErrorKinds : LoadErrorP1(s, e)

P1Spec == Init /\ [][P1Next]_vars

\* ------------------------------------------------------ geometry validation
\* Object3D.children
Children(tr, n) == {c \in 1..tr.n : tr.parent[c] = n}

\* a traversal that looks at the node itself only
Traverse_RootOnly(tr, n) == tr.isMesh[n]

\* node.traverse((child) => { if (child.isMesh) hasGeometry = true; }):
\* the callback runs on the node, then traverse runs on each child
RECURSIVE Traverse(_, _)
Traverse(tr, n) ==
  tr.isMesh[n] \/ \E c \in Children(tr, n) : Traverse(tr, c)

\* let hasGeometry = false; <node>.traverse(...) (lines 83-88, 53-54)
Validate(r) ==
  /\ traversed = 0
  /\ r \in 1..tree.n
  /\ traversed' = r
  /\ hasGeometry' = Traverse(tree, r)
  /\ UNCHANGED <<tree, engine, pvars, fvars, hvars, avars>>

GeomInit ==
  /\ EngineInit
  /\ boxMin = Origin /\ boxMax = <<10, 10, 10>>
  /\ FrameIdle
  /\ HangIdle
  /\ tree \in Trees
  /\ GeomIdle
  /\ AppIdle

GeomNext == \E r \in 1..MaxNodes : Validate(r)

GeomSpec == GeomInit /\ [][GeomNext]_vars

\* ------------------------------------------------- drawing upload (App)
\* `http://localhost:8000${response.data.ifc_url}`
ResultUrl(path) == <<Backend, path>>
\* ifc_url values the backend answers with
IfcPaths == {"/download/a.ifc", "/download/b.ifc"}
\* requests in flight
Inflight == {r \in Uploads : uploadState[r] = "pending"}

\* a button that ignores the loading flag
Disabled_FileOnly == file = NoFile

\* disabled={!file || loading} of both upload buttons
Disabled == file = NoFile \/ loading

\* handleFileChange: setFile(e.target.files[0])
HandleFileChange(f) ==
  /\ file' = f
  /\ UNCHANGED <<appVersion, loading, appIfcUrl, stats, nUploads, uploadState,
                 uploadMode>>
  /\ UNCHANGED <<engine, pvars, fvars, hvars, gvars, cvars>>

\* a click on one of the two upload buttons: handleUpload(mode) up to the
\* await (the early return on !file, setLoading(true), in the second
\* version setIfcUrl(null), then axios.post)
HandleUpload(mode) ==
  /\ ~Disabled
  /\ nUploads < MaxUploads
  /\ IF file = NoFile
       THEN UNCHANGED <<loading, appIfcUrl, nUploads, uploadState, uploadMode>>
       ELSE /\ loading' = TRUE
            /\ appIfcUrl' = IF appVersion = 2 THEN NoUrl ELSE appIfcUrl
            /\ nUploads' = nUploads + 1
            /\ uploadState' = [uploadState EXCEPT ![nUploads + 1] = "pending"]
            /\ uploadMode' = [uploadMode EXCEPT ![nUploads + 1] = mode]
  /\ UNCHANGED <<appVersion, file, stats>>
  /\ UNCHANGED <<engine, pvars, fvars, hvars, gvars, cvars>>

\* axios.post resolved: the rest of the try block, then finally
UploadResolve(r, status, path) ==
  /\ uploadState[r] = "pending"
  /\ IF status = "success"
       THEN /\ appIfcUrl' = ResultUrl(path)
            /\ stats' = <<status, path>>
       ELSE UNCHANGED <<appIfcUrl, stats>>
  /\ loading' = FALSE
  /\ uploadState' = [uploadState EXCEPT ![r] = status]
  /\ UNCHANGED <<appVersion, file, nUploads, uploadMode>>
  /\ UNCHANGED <<engine, pvars, fvars, hvars, gvars, cvars>>

\* axios.post rejected: catch (console.error, alert), then finally
UploadReject(r) ==
  /\ uploadState[r] = "pending"
  /\ loading' = FALSE
  /\ uploadState' = [uploadState EXCEPT ![r] = "failed"]
  /\ UNCHANGED <<appVersion, file, appIfcUrl, stats, nUploads, uploadMode>>
  /\ UNCHANGED <<engine, pvars, fvars, hvars, gvars, cvars>>

\* either version of App before any upload
UploadInit ==
  /\ EngineInit
  /\ boxMin = Origin /\ boxMax = <<10, 10, 10>>
  /\ FrameIdle
  /\ HangIdle
  /\ tree = [n |-> 1, parent |-> <<0>>, isMesh |-> <<TRUE>>]
  /\ GeomIdle
  /\ appVersion \in {1, 2}
  /\ UploadIdle
  /\ ChatIdle

UploadNext ==
  \/ \E f \in Files \cup {NoFile} : HandleFileChange(f)
  \/ \E mode \in {"simple", "advanced"} : HandleUpload(mode)
  \/ \E r \in Uploads, status \in {"success", "error"}, path \in IfcPaths :
       UploadResolve(r, status, path)
  \/ \E r \in Uploads : UploadReject(r)

UploadSpec == UploadInit /\ [][UploadNext]_vars

\* ------------------------------------------------------------ ChatWidget
\* texts are sequences of characters; these can be typed into the input
Texts == {<<>>, <<" ">>, <<"h">>, <<" ", "h", " ">>}
RECURSIVE TrimStart(_)
TrimStart(t) == IF t # <<>> /\ Head(t) = " " THEN TrimStart(Tail(t)) ELSE t
RECURSIVE TrimEnd(_)
TrimEnd(t) ==
  IF t # <<>> /\ t[Len(t)] = " " THEN TrimEnd(SubSeq(t, 1, Len(t) - 1)) ELSE t
\* String.prototype.trim
Trim(t) == TrimEnd(TrimStart(t))
\* updated_params of a reply: absent, or some of the parameters
NoParams == <<>>
ParamUpdates == {NoParams, [floor_count |-> 2], [scale |-> 10, height |-> 4]}
\* { ...prev, ...newParams }
Merge(prev, new) ==
  [k \in DOMAIN prev |-> IF k \in DOMAIN new THEN new[k] ELSE prev[k]]
\* chat requests in flight
ChatInflight == {r \in Chats : chatState[r] = "pending"}

\* the toggle button and the close button: setIsOpen
ToggleOpen ==
  /\ isOpen' = ~isOpen
  /\ UNCHANGED <<inputText, isLoading, messages, nChats, chatState,
                 constructionParams>>
  /\ UNCHANGED <<engine, pvars, fvars, hvars, gvars, uvars>>

\* onChange of the input: setInputText(e.target.value)
TypeInput(t) ==
  /\ isOpen
  /\ inputText' = t
  /\ UNCHANGED <<isOpen, isLoading, messages, nChats, chatState,
                 constructionParams>>
  /\ UNCHANGED <<engine, pvars, fvars, hvars, gvars, uvars>>

\* handleSendMessage up to the await: no request for a blank input,
\* otherwise the user's message is appended, the input cleared, isLoading
\* set and the request sent
HandleSendMessage ==
  /\ nChats < MaxChats
  /\ IF Trim(inputText) = <<>>
       THEN UNCHANGED <<inputText, isLoading, messages, nChats, chatState>>
       ELSE /\ messages' = Append(messages, <<"user", inputText>>)
            /\ inputText' = <<>>
            /\ isLoading' = TRUE
            /\ nChats' = nChats + 1
            /\ chatState' = [chatState EXCEPT ![nChats + 1] = "pending"]
  /\ UNCHANGED <<isOpen, constructionParams>>
  /\ UNCHANGED <<engine, pvars, fvars, hvars, gvars, uvars>>

\* a click on Send, which is disabled={isLoading}
ClickSend ==
  /\ isOpen
  /\ ~isLoading
  /\ HandleSendMessage

\* handleKeyPress of the input: Enter calls handleSendMessage
PressEnter ==
  /\ isOpen
  /\ HandleSendMessage

\* fetch and response.json() resolved: the reply is appended,
\* onParamsUpdate is called for updated_params, then finally
ChatResolve(r, upd) ==
  /\ chatState[r] = "pending"
  /\ messages' = Append(messages, <<"agent", <<"reply">>>>)
  /\ constructionParams' = IF upd # NoParams
                             THEN Merge(constructionParams, upd)
                             ELSE constructionParams
  /\ isLoading' = FALSE
  /\ chatState' = [chatState EXCEPT ![r] = "replied"]
  /\ UNCHANGED <<isOpen, inputText, nChats>>
  /\ UNCHANGED <<engine, pvars, fvars, hvars, gvars, uvars>>

\* fetch or response.json() rejected: catch appends the apology, then finally
ChatReject(r) ==
  /\ chatState[r] = "pending"
  /\ messages' = Append(messages, <<"agent", <<"sorry">>>>)
  /\ isLoading' = FALSE
  /\ chatState' = [chatState EXCEPT ![r] = "failed"]
  /\ UNCHANGED <<isOpen, inputText, nChats, constructionParams>>
  /\ UNCHANGED <<engine, pvars, fvars, hvars, gvars, uvars>>

ChatNext ==
  \/ ToggleOpen
  \/ \E t \in Texts : TypeInput(t)
  \/ ClickSend
  \/ PressEnter
  \/ \E r \in Chats, upd \in ParamUpdates : ChatResolve(r, upd)
  \/ \E r \in Chats : ChatReject(r)

ChatSpec == Init /\ [][ChatNext]_vars

\* ---------------------------------------------------------- vocabulary
Success == <<"success">>
IsError(n) == n # Success
Started(s) == sessUrl[s] # NoUrl
Notifications(s) == {notified[s][k] : k \in DOMAIN notified[s]}
Mentions(reason, text) == \E j \in DOMAIN reason : reason[j] = text
TimeoutReasons ==
  {ReasonTimeoutNoGeometry} \cup {ReasonTimeoutFailed(e) : e \in ErrorKinds}
EmptyReasons ==
  {ReasonNoGeometry, ReasonNoGeometryRetry, ReasonNoGeometryChain,
   ReasonTimeoutNoGeometry}
Failed(o) == o \in {"empty", "LinkError", "Other"}
\* the session's first load has completed: it is past Fetching
PastFetching(s) == lstate[s]["load0"] \notin {"idle", "pending"}
\* a terminal notification came from the load / cascade callbacks
NormalTerminal(s) == \E n \in Notifications(s) : n \notin TimeoutReasons /\ n # Success
NormalSuccess(s) == \E p \in CascadePaths : lstate[s][p] = "mesh"

\* ------------------------------------------------------------- claims

\* C1: every started session eventually gets a terminal notification, and
\* gets exactly one: never none, never a second one (success or error).
C1_ExactlyOneTerminal ==
  /\ [][\A s \in Sessions : Len(notified'[s]) <= 1]_vars
  /\ \A s \in Sessions : Started(s) ~> (Len(notified[s]) >= 1)

\* C2: when url B replaced url A while A's session was still active, the
\* scene holds no node made by A's session once B's session is past Fetching.
C2_Supersession ==
  \A a \in overlapped : \A b \in Sessions :
    (b > a /\ PastFetching(b)) => ~(\E n \in scene : n[1] = a)

\* C3: when candidates 0, 1 and 2 all failed with a LinkError in one
\* session, that session was told an error whose reason names all three.
AllCandidatesLinkFailed(s) ==
  /\ lstate[s]["load0"] = "LinkError" /\ lcand[s]["load0"] = 0
  /\ lstate[s]["load1"] = "LinkError" /\ lcand[s]["load1"] = 1
  /\ lstate[s]["load2"] = "LinkError" /\ lcand[s]["load2"] = 2
C3_CascadeExhaustion ==
  \A s \in Sessions :
    AllCandidatesLinkFailed(s) =>
      \E n \in Notifications(s) :
        /\ IsError(n)
        /\ \A c \in 0..2 : Mentions(n, ListAt(c))

\* C4: when candidate 0 failed with a LinkError and the load with
\* candidate 1 then delivered a model with geometry, the session was told
\* success and no load of that session (the watchdog's included) ever
\* started with candidate 2.
C1Succeeded(s) ==
  /\ lstate[s]["load0"] = "LinkError" /\ lcand[s]["load0"] = 0
  /\ lstate[s]["load1"] = "mesh" /\ lcand[s]["load1"] = 1
C4_CascadeEarlyStop ==
  \A s \in Sessions :
    C1Succeeded(s) =>
      /\ Success \in Notifications(s)
      /\ \A p \in Paths : lcand[s][p] # 2

\* C5: a load that delivered a model without meshes makes the session
\* Failed with an empty-geometry reason, starts no further candidate, and
\* the session is never told success afterwards.
NextPath(p) ==
  CASE p = "load0" -> "load1" [] p = "load1" -> "load2" [] OTHER -> p
C5_EmptyGeometry ==
  \A s \in Sessions : \A p \in Paths :
    lstate[s][p] = "empty" =>
      /\ NoGeometryReason(p) \in Notifications(s)
      /\ (p \in {"load0", "load1"} => lstate[s][NextPath(p)] = "idle")
      /\ \A k \in DOMAIN notified[s] :
           notified[s][k] = NoGeometryReason(p) =>
             \A j \in DOMAIN notified[s] : j > k => notified[s][j] # Success

\* C6: the watchdog callback of a session runs at most once; when it has
\* run, its timer is spent and exactly one reload (the excursion) was
\* started, and no excursion exists without the callback having run.
C6_WatchdogSingleExcursion ==
  \A s \in Sessions :
    /\ wdRuns[s] \in {0, 1}
    /\ wdRuns[s] = 1 => (s \notin timers /\ lstate[s]["wd"] # "idle")
    /\ wdRuns[s] = 0 => lstate[s]["wd"] = "idle"
\* the timeout elapsed with the first load still outstanding and the
\* excursion's reload is under way
C6_Witness ==
  \E s \in Sessions :
    /\ wdRuns[s] = 1
    /\ lstate[s]["load0"] = "pending"
    /\ lstate[s]["wd"] = "pending"
    /\ lcand[s]["wd"] = lcand[s]["load0"]

\* C7: when the excursion's reload failed (rejected, or no geometry), the
\* session was told a timeout reason and is never told success after it.
C7_WatchdogExhaustion ==
  \A s \in Sessions :
    Failed(lstate[s]["wd"]) =>
      \E k \in DOMAIN notified[s] :
        /\ notified[s][k] \in TimeoutReasons
        /\ \A j \in DOMAIN notified[s] : j > k => notified[s][j] # Success

\* C8: the scene never holds more than one model node.
C8_AtMostOneNode == Cardinality(scene) <= 1

\* C9: once a session has been told success or failure by its load or
\* cascade callbacks, its watchdog callback never runs afterwards.
C9_DisarmedAfterTerminal ==
  [][\A s \in Sessions :
       (NormalTerminal(s) \/ NormalSuccess(s)) => wdRuns'[s] = wdRuns[s]]_vars

\* C10: once loadingStatus is 'success' or 'error' it keeps that value
\* until a new url starts a new session.
C10_TerminalAbsorbing ==
  [][(loadingStatus \in {"success", "error"} /\ nSess' = nSess)
       => loadingStatus' = loadingStatus]_vars

\* C11: when a new url arrives while the mounted session has had no
\* terminal notification, the same step disarms the old session's watchdog,
\* leaves no node of the old session in the scene, and starts a new session
\* whose first load is in flight and whose own watchdog is armed.
C11_Reentrancy ==
  [][\A u \in Urls :
       (ifcUrl # NoUrl /\ u # ifcUrl /\ ifcUrl' = u /\ notified[cur] = <<>>) =>
         /\ cur \notin timers'
         /\ ~(\E n \in scene' : n[1] = cur)
         /\ nSess' = nSess + 1
         /\ cur' = nSess'
         /\ sessUrl'[cur'] = u
         /\ lstate'[cur']["load0"] = "pending"
         /\ notified'[cur'] = <<>>
         /\ cur' \in timers'
         /\ watchdog'[sessInst'[cur']] = cur']_vars
\* url B has just replaced url A whose load was pending and whose watchdog
\* was armed (it neither fired nor was cleared by a success)
C11_Witness ==
  /\ nSess = 2 /\ cur = 2
  /\ sessInst[2] = sessInst[1]
  /\ 1 \in overlapped
  /\ notified[1] = <<>> /\ wdRuns[1] = 0
  /\ lstate[1]["load0"] = "pending"
  /\ lstate[2]["load0"] = "pending"
  /\ timers = {2}

\* C12: a session that is no longer the mounted one (superseded, cleared)
\* emits no further terminal notification, adds no node to the scene and
\* does not move the camera.
Cancelled(s) == Started(s) /\ s # cur
C12_CancelledSilent ==
  [][\A s \in Sessions :
       Cancelled(s) =>
         /\ notified'[s] = notified[s]
         /\ \A n \in scene' \ scene : n[1] # s
         /\ (camera' # camera => camera'[1] # s)]_vars

\* a <= b on JavaScript numbers (false as soon as NaN takes part)
JsLeq(a, b) ==
  \/ a[1] = "num" /\ b[1] = "num" /\ a[2] <= b[2]
  \/ a[1] = "num" /\ b = Infinity
  \/ a = Infinity /\ b = Infinity

\* C13: while the mounted session is loading, two values reported to
\* onProgress one after the other within the same attempt do not decrease.
C13_ProgressMonotone ==
  [][(/\ cur # Null
      /\ notified[cur] = <<>>
      /\ lastReported' # lastReported
      /\ lastReported'[1] = lastReported[1])
       => JsLeq(lastReported[2], lastReported'[2])]_vars

\* C14: a session that has reported progress 100 has notified success.
C14_FullOnlyOnSuccess ==
  \A s \in sawFull : Success \in Notifications(s)

\* C15: the box (0,0,0)-(10,10,10) is framed with stand-off 30, the camera
\* at (35,35,35) looking at (5,5,5), whichever component frames it.
StandardBox == boxMin = Origin /\ boxMax = <<10, 10, 10>>
C15_CameraFraming ==
  (StandardBox /\ framer # "none") =>
    /\ distance = 30000
    /\ cameraPosition = <<35000, 35000, 35000>>
    /\ lookAt = <<5000, 5000, 5000>>

\* C16: when the hang timer of a run elapses and its load is still
\* pending, the run has an onError notification with a non-empty reason
\* (the timer callback is the last step of a run whose load never settles).
ErrorsH(s) ==
  {notifiedH[s][k] : k \in DOMAIN notifiedH[s]} \ {<<"success">>, <<"">>}
C16_FailureSurfaced ==
  [][\A s \in Sessions :
       (s \in timeoutH /\ s \notin timeoutH' /\ loadH'[s] = "pending"
          /\ phaseH' = "HANG_DETECTED")
         => ErrorsH(s)' # {}]_vars

\* C17: a session starts at most as many loads as there are candidates in
\* the fallback list, plus one (the load the watchdog starts).
C17_BoundedRetry ==
  \A s \in Sessions : nLoads[s] <= Len(fallbackList) + 1
\* a session that tried every candidate and whose watchdog fired as well
C17_Witness ==
  \E s \in Sessions :
    /\ nLoads[s] = Len(fallbackList) + 1
    /\ wdRuns[s] = 1
    /\ \A p \in CascadePaths : lstate[s][p] # "idle"

\* C18: after the url became null, the session that was mounted has no
\* node in the scene and no armed watchdog.
C18_ClearDestroys ==
  (ifcUrl = NoUrl /\ nSess >= 1) =>
    /\ ~(\E n \in scene : n[1] = nSess)
    /\ nSess \notin timers

\* C19: at most one watchdog timer is armed in every reachable state.
C19_OneWatchdog == Cardinality(timers) <= 1
\* a second session armed its watchdog while the first one's was still
\* armed (never fired, never cleared by a success)
C19_Witness ==
  /\ nSess = 2
  /\ sessInst[2] = sessInst[1]
  /\ notified[1] = <<>> /\ wdRuns[1] = 0
  /\ timers = {2}
  /\ watchdog[sessInst[2]] = 2

\* C20: a load of the cascade that fails with an error that is no
\* LinkError ends in onError in the same step: one error notification,
\* status 'error', no other candidate selected and no other load started.
C20_OtherErrorFinal ==
  [][\A s \in Sessions, p \in CascadePaths :
       (lstate[s][p] = "pending" /\ lstate'[s][p] = "Other") =>
         /\ Len(notified'[s]) = Len(notified[s]) + 1
         /\ IsError(notified'[s][Len(notified'[s])])
         /\ loadingStatus' = "error"
         /\ fallbackIndex' = fallbackIndex
         /\ wasmPath' = wasmPath
         /\ \A q \in Paths : q # p => lstate'[s][q] = lstate[s][q]]_vars
\* the retry on the second candidate failed with a plain error
C20_Witness ==
  \E s \in Sessions :
    /\ lstate[s]["load0"] = "LinkError"
    /\ lstate[s]["load1"] = "Other"
    /\ lstate[s]["load2"] = "idle"
    /\ ReasonRetryFailed("Other") \in Notifications(s)

\* C21: every session starts its first load with the first candidate of
\* the fallback list.
C21_FreshCandidates ==
  \A s \in Sessions : Started(s) => lcand[s]["load0"] = 0

\* C22: a load of a session, whichever call starts it, never uses a
\* candidate with which a load of the same session has already failed.
C22_NoReattempt ==
  [][\A s \in Sessions, q \in Paths :
       (lstate[s][q] = "idle" /\ lstate'[s][q] = "pending") =>
         \A p \in Paths :
           lstate[s][p] \in ErrorKinds => lcand'[s][q] # lcand[s][p]]_vars

C24_SuccessShowsFull ==
  [][\A s \in Sessions :
       (Len(notified'[s]) > Len(notified[s])
          /\ notified'[s][Len(notified'[s])] = Success)
         => (progressPct' = Num(100) /\ s \notin timers')]_vars

\* C25: every step that starts a cascade load (new url or next candidate)
\* leaves the shown progress at 0.
C25_ProgressReset ==
  [][AttemptNo' > AttemptNo => progressPct' = Num(0)]_vars

\* C26: a progress event of a transfer whose total is 0 (unknown) reports
\* nothing: the shown progress and the last reported value stay as they are.
C26_UnknownTotal ==
  [][\A s \in Sessions :
       (xhrLoaded'[s] > xhrLoaded[s] /\ xhrTotal'[s] = 0)
         => (progressPct' = progressPct /\ lastReported' = lastReported)]_vars

C30_DegenerateGuard ==
  (framer # "none" /\ boxMin = boxMax) =>
    (distance > 0 /\ cameraPosition # lookAt)

RECURSIVE UpFrom(_, _)
UpFrom(tr, n) == IF n = 0 THEN {} ELSE {n} \cup UpFrom(tr, tr.parent[n])
\* the subtree of r: the nodes that have r on their way up
Subtree(tr, r) == {n \in 1..tr.n : r \in UpFrom(tr, n)}

\* C29: the traversal of a node sets hasGeometry iff some node of its
\* subtree is a mesh, and it changes neither the tree nor scene or camera.
C29_GeometryValidation ==
  /\ [](traversed # 0 =>
          (hasGeometry <=> \E n \in Subtree(tree, traversed) : tree.isMesh[n]))
  /\ [][tree' = tree /\ scene' = scene /\ camera' = camera]_vars
\* the traversal ran on an inner node that is no mesh itself and found a
\* mesh below it
C29_Witness ==
  /\ traversed > 1
  /\ Children(tree, traversed) # {}
  /\ ~tree.isMesh[traversed]
  /\ hasGeometry

\* C31: a box of positive size is framed from center + (d, d, d) with
\* d = maxDim * k for a k between 2 and 3.
C31_FixedMultiplier ==
  (framer # "none" /\ MaxDim > 0) =>
    /\ distance >= 2000 * MaxDim
    /\ distance <= 3000 * MaxDim
    /\ cameraPosition = Offset(Center, distance)

\* ifcLoader.current of the component a session runs in: created once per
\* instance and never replaced
LoaderOf(s) == InstOf(s)
\* C32: no load is started on a loader on which an earlier load has
\* failed with an error.
C32_FreshLoader ==
  [][\A s \in Sessions, q \in Paths :
       (lstate[s][q] = "idle" /\ lstate'[s][q] = "pending") =>
         ~\E s2 \in Sessions, p \in Paths :
            /\ Started(s2)'
            /\ LoaderOf(s2)' = LoaderOf(s)'
            /\ lstate'[s2][p] \in ErrorKinds]_vars

\* C33: the node of a load that delivered a model without a mesh is not in
\* the scene and is not the tracked model of any component.
C33_EmptyNeverAttached ==
  \A s \in Sessions, p \in Paths :
    lstate[s][p] = "empty" =>
      /\ Node(s, p) \notin scene
      /\ \A i \in Sessions : modelRef[i] # Node(s, p)
\* one session got a model without a mesh on a retry path and from the
\* watchdog's reload
C33_Witness ==
  \E s \in Sessions, p \in {"load1", "load2"} :
    /\ lstate[s][p] = "empty"
    /\ lstate[s]["wd"] = "empty"

\* C34: the hang timer only fires for the mounted run while its load is
\* pending: never after the load resolved or rejected, never for a run that
\* was superseded or cleaned up.
C34_HangOnlyWhileLoading ==
  [][(phaseH' = "HANG_DETECTED" /\ timeoutH' # timeoutH /\ loadH' = loadH
        /\ urlH' = urlH)
       => \E s \in timeoutH \ timeoutH' : s = curH /\ loadH[s] = "pending"]_vars
\* the second run is loading with its timeout armed; the first was
\* superseded while loading and its timeout is gone
C34_Witness ==
  /\ nSessH = 2 /\ curH = 2
  /\ loadH[1] = "pending"
  /\ loadH[2] = "pending"
  /\ timeoutH = {2}

\* C37: fallbackIndex is an index of fallbackList, and the path set on the
\* loader, like the currentWasm state, is the list's entry at that index.
C37_IndexPathConsistent ==
  \A i \in Sessions :
    /\ fallbackIndex[i] \in 0..(Len(fallbackList) - 1)
    /\ wasmPath[i] # Undefined => wasmPath[i] = fallbackList[fallbackIndex[i] + 1]
    /\ currentWasm[i] = fallbackList[fallbackIndex[i] + 1]
\* a component whose cascade has moved to the last candidate
C37_Witness ==
  \E i \in Sessions :
    /\ fallbackIndex[i] = Len(fallbackList) - 1
    /\ wasmPath[i] = fallbackList[Len(fallbackList)]

\* C35: at most one upload request is in flight, the loading flag is true
\* exactly while one is, and both upload buttons are disabled while it is
\* true.
C35_SingleUpload ==
  /\ Cardinality(Inflight) <= 1
  /\ loading <=> Inflight # {}
  /\ loading => Disabled
\* a second upload is in flight after the first one failed and the flag
\* went back to false
C35_Witness ==
  /\ uploadState[1] = "failed"
  /\ uploadState[2] = "pending"
  /\ loading

\* C36: at most one chat request is in flight, and isLoading is false only
\* when none is.
C36_SingleChat ==
  /\ Cardinality(ChatInflight) <= 1
  /\ ~isLoading => ChatInflight = {}

====
